---- MODULE Spec2Model ----
(***************************************************************************)
(* Authentication and access control of hepic-app-server: the token codec  *)
(* (AuthService.GenerateJWT / ValidateJWT), the access gate (JWTWithConfig)*)
(* the auth handlers, the auth service and the users table it keeps in     *)
(* ClickHouse.                                                             *)
(*                                                                         *)
(* Time is counted in ticks of 1/TicksPerSecond second since the Unix      *)
(* epoch, so that time.Time.Unix() and ClickHouse's DateTime, which both   *)
(* drop the sub-second part, are real conversions.                         *)
(*                                                                         *)
(* A 64-bit integer is written as the set of the exponents of its binary   *)
(* expansion ({0, 53} is 2^53 + 1), so that values beyond the checker's    *)
(* machine integers, and their conversion to float64, can be computed.     *)
(***************************************************************************)
EXTENDS Integers, Sequences, FiniteSets, TLC

VARIABLES
    now,        \* the wall clock (time.Now()), in ticks
    jwtSecret,  \* AuthService.jwtSecret of the running process
    users,      \* the rows of the ClickHouse table users, in insertion order
    issued,     \* what GenerateJWT has returned so far, with its arguments
    resp,       \* the last call: its request, its answer, what the gate did
    registering, \* the register calls being served side by side: how far each got
    updating    \* the profile updates being served side by side, likewise

vars == <<now, jwtSecret, users, issued, resp, registering, updating>>

(***************************** bounds ***************************************)
\* The clock is sampled up to MaxDrift ticks after the start and around the expiry.
MaxDrift == 2
\* Rows the users table may hold.
MaxUsers == 2
\* Tokens kept in issued.
MaxTokens == 1
\* Distinct values of the random token identifier.
MaxJti == 1
\* Resolution of the modelled clock.
TicksPerSecond == 2
\* Register calls served side by side.
MaxCalls == 2

(************************ program constants *********************************)
jwtExpire == 24
SecondsPerHour == 3600
NanosPerSecond == 1000000000
MantissaBits == 53

Secrets == {"k1", "k2"}
Usernames == {"alice", "bob"}
Emails == {"alice@x.com", "bob@x.com"}
Passwords == {"secret1", "pw2"}
Roles == {"admin", "user"}

(************************ 64-bit integers ***********************************)
Pow2(n) == 2 ^ n

FromInt(n) == {e \in 0..30 : (n \div Pow2(e)) % 2 = 1}

RECURSIVE ToInt(_)
ToInt(S) == IF S = {} THEN 0
            ELSE LET e == CHOOSE x \in S : TRUE IN Pow2(e) + ToInt(S \ {e})

Shl(S, k) == {e + k : e \in S}

RECURSIVE Add(_, _)
Add(A, B) == IF B = {} THEN A
             ELSE Add((A \ B) \cup (B \ A), Shl(A \cap B, 1))

RECURSIVE Mul(_, _)
Mul(A, B) == IF B = {} THEN {}
             ELSE LET e == CHOOSE x \in B : TRUE IN Add(Shl(A, e), Mul(A, B \ {e}))

MaxExp(S) == CHOOSE e \in S : \A f \in S : f <= e

\* The float64 nearest to the integer S (ties to even), as an integer: what
\* encoding/json makes of a JSON number and int64(...) of that.
Float64(S) ==
    IF S = {} THEN {}
    ELSE LET m == MaxExp(S)
             lsb == m - (MantissaBits - 1)
             kept == {e \in S : e >= lsb}
             rest == {e \in S : e < lsb}
             half == lsb - 1
             up == half \in rest /\ (rest # {half} \/ lsb \in kept)
             p == CHOOSE q \in lsb..(m + 1) :
                      q \notin kept /\ \A r \in lsb..(q - 1) : r \in kept
         IN IF up THEN {e \in kept : e > p} \cup {p} ELSE kept

\* time.Time.Unix(): whole seconds.
Unix(t) == t \div TicksPerSecond
\* time.Time.UnixNano().
UnixNano(t) == Mul(FromInt(t), FromInt(NanosPerSecond \div TicksPerSecond))
\* A whole number of seconds as a time.
AtSecond(s) == s * TicksPerSecond

ExpireTicks == jwtExpire * SecondsPerHour * TicksPerSecond

\* The moments the clock is sampled at.
Instants == (1..MaxDrift) \cup {ExpireTicks + d : d \in (-1)..MaxDrift}

\* Identifiers handed to the codec: 0, 2^53 + 1, 2^53 + 2, and a
\* nanosecond timestamp of the current era.
UserIDs == { {}, {0, 53}, {1, 53}, {60, 59, 55, 40, 21, 3, 0} }

(***************************** JSON values **********************************)
Num(S) == [t |-> "number", num |-> S, str |-> ""]
Str(s) == [t |-> "string", num |-> {}, str |-> s]
Absent == [t |-> "absent", num |-> {}, str |-> ""]

(***************************** token codec **********************************)
\* The algorithms golang-jwt registers, and those of type *SigningMethodHMAC.
RegisteredAlgs == {"HS256", "HS384", "HS512", "RS256", "none"}
HMACAlgs == {"HS256", "HS384", "HS512"}

\* The signature of a message under an algorithm and a key: different
\* algorithms, keys or messages give different signatures.
\* A faulty signer, to test the rotation property against: the key plays no part.
Sign_Keyless(alg, key, msg) == [alg |-> alg, key |-> "", msg |-> msg, flipped |-> FALSE]
Sign(alg, key, msg) == [alg |-> alg, key |-> key, msg |-> msg, flipped |-> FALSE]

EmptyClaims ==
    [user_id |-> Absent, username |-> Absent, role |-> Absent,
     exp |-> Absent, iat |-> Absent, jti |-> Absent]

\* The empty string, and a string that is not three dot-separated segments.
EmptyToken ==
    [parts |-> 0, alg |-> "", claims |-> EmptyClaims, sig |-> Sign("", "", EmptyClaims)]
GarbageToken ==
    [parts |-> 2, alg |-> "", claims |-> EmptyClaims, sig |-> Sign("", "", EmptyClaims)]

Compact(alg, claims, key) ==
    [parts |-> 3, alg |-> alg, claims |-> claims, sig |-> Sign(alg, key, claims)]

generateJTI(n) == Str(ToString(n))

GenerateJWT_Claims(userID, username, role, jti) ==
    LET expiresAt == now + ExpireTicks
    IN [user_id |-> Num(userID), username |-> Str(username), role |-> Str(role),
        exp |-> Num(FromInt(Unix(expiresAt))), iat |-> Num(FromInt(Unix(now))),
        jti |-> jti]

\* AuthService.GenerateJWT: the token string and the expiry it returns.
GenerateJWT(userID, username, role, jti) ==
    [token |-> Compact("HS256", GenerateJWT_Claims(userID, username, role, jti), jwtSecret),
     expiresAt |-> now + ExpireTicks]

\* A faulty key function, to test the independence property against: it
\* refuses when the directory holds no active user.
KeyFuncAccepts_Directory(alg) ==
    alg \in HMACAlgs /\ \E i \in 1..Len(users) : users[i].is_active
\* The key function ValidateJWT gives jwt.Parse.
KeyFuncAccepts(alg) == alg \in HMACAlgs

\* A faulty expiry test, to test the expiry property against: the token is
\* still good at its expiry.
Before_Inclusive(t, u) == t <= u
\* time.Time.Before, as the validator of jwt.Parse compares now with exp.
Before(t, u) == t < u

\* jwt.Parse with that key function: "" when the token is valid, else the
\* kind of the first failure.
JwtParse(tok, key, t) ==
    IF tok.parts # 3 THEN "malformed"
    ELSE IF tok.alg \notin RegisteredAlgs THEN "unverifiable"
    ELSE IF ~KeyFuncAccepts(tok.alg) THEN "unverifiable"
    ELSE IF tok.sig # Sign(tok.alg, key, tok.claims) THEN "signature"
    ELSE IF tok.claims.exp.t = "string" THEN "claims"
    ELSE IF tok.claims.exp.t = "number"
            /\ ~Before(t, AtSecond(ToInt(Float64(tok.claims.exp.num)))) THEN "expired"
    ELSE ""

NoPayload == [UserID |-> {}, Username |-> "", Role |-> "", Exp |-> {}, Iat |-> {}]

\* AuthService.ValidateJWT: err is "" on success.
ValidateJWT(tokenString) ==
    LET parse == JwtParse(tokenString, jwtSecret, now)
        claims == tokenString.claims
    IN IF parse # "" THEN [err |-> parse, payload |-> NoPayload]
       ELSE IF claims.user_id.t # "number" THEN [err |-> "claims", payload |-> NoPayload]
       ELSE IF claims.username.t # "string" THEN [err |-> "claims", payload |-> NoPayload]
       ELSE IF claims.role.t # "string" THEN [err |-> "claims", payload |-> NoPayload]
       ELSE IF claims.exp.t # "number" THEN [err |-> "claims", payload |-> NoPayload]
       ELSE IF claims.iat.t # "number" THEN [err |-> "claims", payload |-> NoPayload]
       ELSE [err |-> "",
             payload |-> [UserID |-> Float64(claims.user_id.num),
                          Username |-> claims.username.str,
                          Role |-> claims.role.str,
                          Exp |-> Float64(claims.exp.num),
                          Iat |-> Float64(claims.iat.num)]]

(***************************** users table ***********************************)
\* ClickHouse DateTime keeps whole seconds.
DateTime(t) == Unix(t)

\* Rows matching a predicate on one column, as positions in the table.
RowsByID(tbl, id) == {i \in 1..Len(tbl) : tbl[i].id = id}
RowsByUsername(tbl, username) == {i \in 1..Len(tbl) : tbl[i].username = username}
RowsByEmail(tbl, email) == {i \in 1..Len(tbl) : tbl[i].email = email}

\* A faulty encoding, to test the password property against: every field of
\* models.User is written.
ToJSON_Whole(user) == user
\* models.User as encoding/json writes it: the Password field is json:"-".
ToJSON(user) ==
    [id |-> user.id, username |-> user.username, email |-> user.email,
     role |-> user.role, is_active |-> user.is_active,
     created_at |-> user.created_at, updated_at |-> user.updated_at,
     last_login |-> user.last_login]

(***************************** access gate **********************************)
Header(scheme, rest) == [scheme |-> scheme, rest |-> rest]
NoHeader == Header("", EmptyToken)

NoContext == [user_id |-> {}, username |-> "", user_role |-> "", set |-> FALSE]

\* A faulty rejection, to test the uniformity property against: the answer
\* carries the cause.
Rejected_Telling(status, error, cause, trace) ==
    [next |-> FALSE, status |-> status,
     error |-> IF cause = "" THEN error ELSE cause, cause |-> cause,
     ctx |-> NoContext, trace |-> trace]
\* The gate answers itself: c.JSON(status, {"success": false, "error": error}).
Rejected(status, error, cause, trace) ==
    [next |-> FALSE, status |-> status, error |-> error, cause |-> cause,
     ctx |-> NoContext, trace |-> trace]

\* A faulty prefix test, to test the header property against: any scheme passes.
HasPrefix_Any(authHeader, prefix) == TRUE
\* strings.HasPrefix(authHeader, prefix).
HasPrefix(authHeader, prefix) == authHeader.scheme = prefix

\* A faulty role test, to test the role property against: no role is refused.
RoleMismatch_Never(RequiredRole, role) == FALSE
\* config.RequiredRole != "" && payload.Role != config.RequiredRole
RoleMismatch(RequiredRole, role) == RequiredRole # "" /\ role # RequiredRole

\* A faulty gate, to test the stage-order property against: it binds the
\* identity before it checks the role.
JWTWithConfig_BindFirst(RequiredRole, authHeader) ==
    IF authHeader = NoHeader
    THEN Rejected(401, "Missing Authorization header", "", <<>>)
    ELSE IF ~HasPrefix(authHeader, "Bearer ")
    THEN Rejected(401, "Invalid Authorization header format", "", <<>>)
    ELSE IF authHeader.rest = EmptyToken
    THEN Rejected(401, "Empty token", "", <<>>)
    ELSE LET v == ValidateJWT(authHeader.rest)
             bound == [user_id |-> v.payload.UserID, username |-> v.payload.Username,
                       user_role |-> v.payload.Role, set |-> TRUE]
         IN IF v.err # ""
            THEN Rejected(401, "Invalid token", v.err, <<"extracted">>)
            ELSE IF RoleMismatch(RequiredRole, v.payload.Role)
            THEN [Rejected(403, "Insufficient permissions", "",
                           <<"extracted", "verified", "bound", "role">>)
                  EXCEPT !.ctx = bound]
            ELSE [next |-> TRUE, status |-> 0, error |-> "", cause |-> "",
                  ctx |-> bound,
                  trace |-> IF RequiredRole # ""
                            THEN <<"extracted", "verified", "bound", "role", "next">>
                            ELSE <<"extracted", "verified", "bound", "next">>]
\* middleware.JWTWithConfig: next tells whether the wrapped handler is called,
\* ctx what c.Set has bound, cause what is logged of a verification failure,
\* trace the steps taken in order.
JWTWithConfig(RequiredRole, authHeader) ==
    IF authHeader = NoHeader
    THEN Rejected(401, "Missing Authorization header", "", <<>>)
    ELSE IF ~HasPrefix(authHeader, "Bearer ")
    THEN Rejected(401, "Invalid Authorization header format", "", <<>>)
    ELSE IF authHeader.rest = EmptyToken
    THEN Rejected(401, "Empty token", "", <<>>)
    ELSE LET v == ValidateJWT(authHeader.rest)
         IN IF v.err # ""
            THEN Rejected(401, "Invalid token", v.err, <<"extracted">>)
            ELSE IF RoleMismatch(RequiredRole, v.payload.Role)
            THEN Rejected(403, "Insufficient permissions", "",
                          <<"extracted", "verified", "role">>)
            ELSE [next |-> TRUE, status |-> 0, error |-> "", cause |-> "",
                  ctx |-> [user_id |-> v.payload.UserID,
                           username |-> v.payload.Username,
                           user_role |-> v.payload.Role, set |-> TRUE],
                  trace |-> IF RequiredRole # ""
                            THEN <<"extracted", "verified", "role", "bound", "next">>
                            ELSE <<"extracted", "verified", "bound", "next">>]

\* routes.SetupRoutes: the role each protected route's group requires.
ProtectedRoutes == {"/me", "/profile", "/change-password", "/users", "/stats"}
RequiredRoleOf(route) == IF route \in {"/users", "/stats"} THEN "admin" ELSE ""

(***************************** credential hasher ****************************)
MaxSalt == 1
\* A faulty hasher, to test the registration property against: it yields the
\* empty hash.
GenerateFromPassword_Empty(password, salt) == [plain |-> "", salt |-> 0]
\* bcrypt.GenerateFromPassword: a salted hash; bcrypt.CompareHashAndPassword.
GenerateFromPassword(password, salt) == [plain |-> password, salt |-> salt]
CompareHashAndPassword(hash, password) == hash.plain = password /\ hash.salt > 0
\* The empty string in the Password field.
NoPassword == [plain |-> "", salt |-> 0]

(***************************** errors ***************************************)
\* An error value: its message, the value formatted into it, and the text of
\* the storage error it wraps ("" when it wraps none).
Err(msg, arg, storage) == [msg |-> msg, arg |-> arg, storage |-> storage]
NoErr == Err("", "", "")
\* What the driver reports when a call to the directory fails.
StorageError == "clickhouse: connection refused"
ErrNoRows == "sql: no rows in result set"

(***************************** directory calls ******************************)
\* A models.User value; its times are in ticks.
NoUser ==
    [id |-> {}, username |-> "", email |-> "", password |-> NoPassword, role |-> "",
     is_active |-> FALSE, created_at |-> 0, updated_at |-> 0, last_login |-> <<>>]

\* The row QueryRow(... LIMIT 1) may return among those that match: 0 when none does.
Pick(matching) == IF matching = {} THEN {0} ELSE matching

\* row.Scan into a models.User.
Scan(row) ==
    [row EXCEPT !.created_at = AtSecond(row.created_at),
                !.updated_at = AtSecond(row.updated_at),
                !.last_login = IF row.last_login = <<>> THEN <<>>
                               ELSE <<AtSecond(row.last_login[1])>>]

\* ClickHouseDB.GetUserByID / GetUserByUsername / GetUserByEmail, given the
\* row the query returned (0: none) and whether the call failed.
QueryRow(tbl, pick, down) ==
    IF down THEN [user |-> NoUser, err |-> StorageError]
    ELSE IF pick = 0 THEN [user |-> NoUser, err |-> ErrNoRows]
    ELSE [user |-> Scan(tbl[pick]), err |-> ""]

\* ClickHouseDB.InsertUser: the INSERT names neither id nor last_login, which
\* take the column defaults (0 and NULL); the identifier returned is the clock's.
ClickHouseDB_InsertUser(tbl, user) ==
    [users |-> Append(tbl, [user EXCEPT !.id = {},
                                        !.created_at = DateTime(user.created_at),
                                        !.updated_at = DateTime(user.updated_at),
                                        !.last_login = <<>>]),
     userID |-> UnixNano(now)]

\* ClickHouseDB.UpdateUser: ALTER TABLE users UPDATE ... WHERE id = ?
ClickHouseDB_UpdateUser(tbl, user) ==
    [i \in 1..Len(tbl) |->
        IF tbl[i].id = user.id
        THEN [tbl[i] EXCEPT !.username = user.username, !.email = user.email,
                            !.role = user.role, !.is_active = user.is_active,
                            !.updated_at = DateTime(user.updated_at)]
        ELSE tbl[i]]

\* ClickHouseDB.UpdateUserPassword.
ClickHouseDB_UpdateUserPassword(tbl, userID, hashedPassword) ==
    [i \in 1..Len(tbl) |->
        IF tbl[i].id = userID
        THEN [tbl[i] EXCEPT !.password = hashedPassword, !.updated_at = DateTime(now)]
        ELSE tbl[i]]

\* A faulty last-login update, to test the frame property against: it writes
\* the time of the login into created_at as well.
ClickHouseDB_UpdateUserLastLogin_Created(tbl, userID, lastLogin) ==
    [i \in 1..Len(tbl) |->
        IF tbl[i].id = userID
        THEN [tbl[i] EXCEPT !.last_login = <<DateTime(lastLogin)>>,
                            !.created_at = DateTime(lastLogin),
                            !.updated_at = DateTime(now)]
        ELSE tbl[i]]
\* ClickHouseDB.UpdateUserLastLogin.
ClickHouseDB_UpdateUserLastLogin(tbl, userID, lastLogin) ==
    [i \in 1..Len(tbl) |->
        IF tbl[i].id = userID
        THEN [tbl[i] EXCEPT !.last_login = <<DateTime(lastLogin)>>,
                            !.updated_at = DateTime(now)]
        ELSE tbl[i]]

\* ClickHouseDB.DeleteUser: ALTER TABLE users DELETE WHERE id = ?
ClickHouseDB_DeleteUser(tbl, userID) ==
    LET Other(row) == row.id # userID IN SelectSeq(tbl, Other)

(***************************** auth service *********************************)
\* Each operation is given the table, its arguments, the row each lookup
\* returned (see Pick) and the set of its directory calls that failed; it
\* yields the table it leaves and what it returns.

\* AuthService.Register.
Register(tbl, req, pName, pEmail, down, salt) ==
    LET existingUser == QueryRow(tbl, pName, "byUsername" \in down)
        existingEmail == QueryRow(tbl, pEmail, "byEmail" \in down)
        role == IF req.role = "" THEN "user" ELSE req.role
        user == [id |-> {}, username |-> req.username, email |-> req.email,
                 password |-> GenerateFromPassword(req.password, salt),
                 role |-> role, is_active |-> TRUE, created_at |-> now,
                 updated_at |-> now, last_login |-> <<>>]
        ins == ClickHouseDB_InsertUser(tbl, user)
    IN IF existingUser.err = ""
       THEN [users |-> tbl, user |-> NoUser,
             err |-> Err("user with username %s already exists", req.username, "")]
       ELSE IF existingEmail.err = ""
       THEN [users |-> tbl, user |-> NoUser,
             err |-> Err("user with email %s already exists", req.email, "")]
       ELSE IF "insert" \in down
       THEN [users |-> tbl, user |-> NoUser,
             err |-> Err("failed to create user: %w", "", StorageError)]
       ELSE [users |-> ins.users,
             user |-> [user EXCEPT !.id = ins.userID, !.password = NoPassword],
             err |-> NoErr]

NoLogin == [token |-> EmptyToken, expiresAt |-> 0, user |-> NoUser]

\* AuthService.Login.
Login(tbl, req, pName, down, jti) ==
    LET got == QueryRow(tbl, pName, "byUsername" \in down)
        user == got.user
        jwt == GenerateJWT(user.id, user.username, user.role, jti)
        after == IF "lastLogin" \in down THEN tbl
                 ELSE ClickHouseDB_UpdateUserLastLogin(tbl, user.id, now)
    IN IF got.err # ""
       THEN [users |-> tbl, out |-> NoLogin, err |-> Err("invalid credentials", "", "")]
       ELSE IF ~user.is_active
       THEN [users |-> tbl, out |-> NoLogin, err |-> Err("account is disabled", "", "")]
       ELSE IF ~CompareHashAndPassword(user.password, req.password)
       THEN [users |-> tbl, out |-> NoLogin, err |-> Err("invalid credentials", "", "")]
       ELSE [users |-> after,
             out |-> [token |-> jwt.token, expiresAt |-> jwt.expiresAt,
                      user |-> [user EXCEPT !.last_login = <<now>>,
                                            !.password = NoPassword]],
             err |-> NoErr]

\* AuthService.UpdateUser. req.is_active is <<>> for a nil pointer.
UpdateUser(tbl, userID, req, pID, pName, pEmail, down) ==
    LET got == QueryRow(tbl, pID, "byID" \in down)
        byName == QueryRow(tbl, pName, "byUsername" \in down)
        byEmail == QueryRow(tbl, pEmail, "byEmail" \in down)
        user == [got.user EXCEPT
                    !.username = IF req.username # "" THEN req.username ELSE @,
                    !.email = IF req.email # "" THEN req.email ELSE @,
                    !.role = IF req.role # "" THEN req.role ELSE @,
                    !.is_active = IF req.is_active # <<>> THEN req.is_active[1] ELSE @,
                    !.updated_at = now]
    IN IF got.err # ""
       THEN [users |-> tbl, user |-> NoUser, err |-> Err("user not found: %w", "", got.err)]
       ELSE IF req.username # "" /\ byName.err = "" /\ byName.user.id # userID
       THEN [users |-> tbl, user |-> NoUser,
             err |-> Err("username %s is already taken", req.username, "")]
       ELSE IF req.email # "" /\ byEmail.err = "" /\ byEmail.user.id # userID
       THEN [users |-> tbl, user |-> NoUser,
             err |-> Err("email %s is already taken", req.email, "")]
       ELSE IF "update" \in down
       THEN [users |-> tbl, user |-> NoUser,
             err |-> Err("failed to update user: %w", "", StorageError)]
       ELSE [users |-> ClickHouseDB_UpdateUser(tbl, user),
             user |-> [user EXCEPT !.password = NoPassword], err |-> NoErr]

\* AuthService.ChangePassword.
ChangePassword(tbl, userID, req, pID, down, salt) ==
    LET got == QueryRow(tbl, pID, "byID" \in down)
    IN IF got.err # ""
       THEN [users |-> tbl, err |-> Err("user not found: %w", "", got.err)]
       ELSE IF ~CompareHashAndPassword(got.user.password, req.current_password)
       THEN [users |-> tbl, err |-> Err("current password is incorrect", "", "")]
       ELSE IF "update" \in down
       THEN [users |-> tbl, err |-> Err("failed to update password: %w", "", StorageError)]
       ELSE [users |-> ClickHouseDB_UpdateUserPassword(
                           tbl, userID, GenerateFromPassword(req.new_password, salt)),
             err |-> NoErr]

\* AuthService.DeleteUser.
DeleteUser(tbl, userID, down) ==
    IF "delete" \in down
    THEN [users |-> tbl, err |-> Err("failed to delete user: %w", "", StorageError)]
    ELSE [users |-> ClickHouseDB_DeleteUser(tbl, userID), err |-> NoErr]

(***************************** user listing *********************************)
Min(a, b) == IF a < b THEN a ELSE b

\* The orders ORDER BY created_at DESC may return the rows idx in: rows of
\* the same second come in any order.
Orderings(tbl, idx) ==
    {o \in [1..Cardinality(idx) -> idx] :
        /\ \A i, j \in 1..Cardinality(idx) : i # j => o[i] # o[j]
        /\ \A i, j \in 1..Cardinality(idx) :
              i < j => tbl[o[i]].created_at >= tbl[o[j]].created_at}

\* ClickHouseDB.GetUsers, given the order the query returned the rows in. The
\* SELECT does not read the password column.
ClickHouseDB_GetUsers(tbl, page, perPage, role, order) ==
    LET offset == (page - 1) * perPage
        total == Len(order)
        last == Min(offset + perPage, total)
    IN [users |-> [i \in 1..(IF last > offset THEN last - offset ELSE 0) |->
                      [Scan(tbl[order[offset + i]]) EXCEPT !.password = NoPassword]],
        total |-> total, page |-> page, per_page |-> perPage,
        total_pages |-> (total + perPage - 1) \div perPage]

RoleFilter(tbl, role) ==
    {i \in 1..Len(tbl) : role = "" \/ tbl[i].role = role}

HoursPerDay == 24
StartOfDay(s) == (s \div (HoursPerDay * SecondsPerHour)) * (HoursPerDay * SecondsPerHour)

\* ClickHouseDB.GetUserStats.
ClickHouseDB_GetUserStats(tbl) ==
    LET Count(P(_)) == Cardinality({i \in 1..Len(tbl) : P(tbl[i])})
        Each(r) == TRUE
        Active(r) == r.is_active
        Admin(r) == r.role = "admin"
        Regular(r) == r.role = "user"
        Today(r) == r.created_at >= StartOfDay(DateTime(now))
    IN [total_users |-> Count(Each), active_users |-> Count(Active),
        admin_users |-> Count(Admin), regular_users |-> Count(Regular),
        new_users_today |-> Count(Today)]

(***************************** handlers *************************************)
\* What a handler leaves and answers: c.JSON(status, models.APIResponse{...}).
NoData == <<>>
Answer(tbl, status, data, error, message) ==
    [users |-> tbl, status |-> status,
     body |-> [success |-> error = NoErr, data |-> data, error |-> error,
               message |-> message]]

Generic(msg) == Err(msg, "", "")

\* c.Bind and c.Validate: body is "unparsable", "invalid" or "ok"; the
\* request values of an "ok" body satisfy the validate tags.
BadBody(tbl, body) ==
    IF body = "unparsable"
    THEN Answer(tbl, 400, NoData, Generic("Invalid request body"), "")
    ELSE Answer(tbl, 400, NoData, Generic("validation failed"), "")

\* AuthHandler.Register.
AuthHandler_Register(tbl, body, req, pName, pEmail, down, salt) ==
    LET r == Register(tbl, req, pName, pEmail, down, salt)
    IN IF body # "ok" THEN BadBody(tbl, body)
       ELSE IF r.err # NoErr THEN Answer(r.users, 409, NoData, r.err, "")
       ELSE Answer(r.users, 201, ToJSON(r.user), NoErr, "User registered successfully")

\* AuthHandler.Login.
AuthHandler_Login(tbl, body, req, pName, down, jti) ==
    LET r == Login(tbl, req, pName, down, jti)
    IN IF body # "ok" THEN BadBody(tbl, body)
       ELSE IF r.err # NoErr THEN Answer(r.users, 401, NoData, r.err, "")
       ELSE Answer(r.users, 200,
                   [token |-> r.out.token, expires_at |-> r.out.expiresAt,
                    user |-> ToJSON(r.out.user)],
                   NoErr, "Login successful")

\* AuthHandler.Me.
AuthHandler_Me(tbl, ctx, pID, down) ==
    LET got == QueryRow(tbl, pID, "byID" \in down)
    IN IF ~ctx.set THEN Answer(tbl, 401, NoData, Generic("Unauthorized"), "")
       ELSE IF got.err # ""
       THEN Answer(tbl, 500, NoData, Generic("Failed to get user information"), "")
       ELSE Answer(tbl, 200, ToJSON(got.user), NoErr, "")

\* AuthHandler.UpdateProfile.
AuthHandler_UpdateProfile(tbl, ctx, body, req, pID, pName, pEmail, down) ==
    LET r == UpdateUser(tbl, ctx.user_id, req, pID, pName, pEmail, down)
    IN IF ~ctx.set THEN Answer(tbl, 401, NoData, Generic("Unauthorized"), "")
       ELSE IF body # "ok" THEN BadBody(tbl, body)
       ELSE IF r.err # NoErr THEN Answer(r.users, 500, NoData, r.err, "")
       ELSE Answer(r.users, 200, ToJSON(r.user), NoErr, "Profile updated successfully")

\* AuthHandler.ChangePassword.
AuthHandler_ChangePassword(tbl, ctx, body, req, pID, down, salt) ==
    LET r == ChangePassword(tbl, ctx.user_id, req, pID, down, salt)
    IN IF ~ctx.set THEN Answer(tbl, 401, NoData, Generic("Unauthorized"), "")
       ELSE IF body # "ok" THEN BadBody(tbl, body)
       ELSE IF r.err # NoErr THEN Answer(r.users, 400, NoData, r.err, "")
       ELSE Answer(r.users, 200, NoData, NoErr, "Password changed successfully")

\* if page < 1 { page = 1 }
PageOf(page) == IF page < 1 THEN 1 ELSE page

\* A faulty normalisation, to test the paging property against: per_page is
\* clamped into [1, 100].
PerPageOf_Clamped(perPage) ==
    IF perPage < 1 THEN 1 ELSE IF perPage > 100 THEN 100 ELSE perPage
\* if perPage < 1 || perPage > 100 { perPage = 10 }
PerPageOf(perPage) == IF perPage < 1 \/ perPage > 100 THEN 10 ELSE perPage

\* AuthHandler.GetUsers: page and perPage are strconv.Atoi of the query
\* parameters (0 when absent or not a number).
AuthHandler_GetUsers(tbl, ctx, page, perPage, role, order, down) ==
    LET pg == PageOf(page)
        pp == PerPageOf(perPage)
    IN IF ~ctx.set \/ ctx.user_role # "admin"
       THEN Answer(tbl, 403, NoData, Generic("Access denied - admin role required"), "")
       ELSE IF "list" \in down
       THEN Answer(tbl, 500, NoData, Generic("Failed to get users"), "")
       ELSE LET list == ClickHouseDB_GetUsers(tbl, pg, pp, role, order)
            IN Answer(tbl, 200,
                      [list EXCEPT !.users = [i \in DOMAIN list.users |->
                                                 ToJSON(list.users[i])]],
                      NoErr, "")

\* AuthHandler.GetUserStats.
AuthHandler_GetUserStats(tbl, ctx, down) ==
    IF ~ctx.set \/ ctx.user_role # "admin"
    THEN Answer(tbl, 403, NoData, Generic("Access denied - admin role required"), "")
    ELSE IF "stats" \in down
    THEN Answer(tbl, 500, NoData, Generic("Failed to get user statistics"), "")
    ELSE Answer(tbl, 200, ClickHouseDB_GetUserStats(tbl), NoErr, "")

(***************************** requests *************************************)
RegisterRequests ==
    [username : Usernames, email : Emails, password : {"secret1"}, role : {"", "admin"}]
LoginRequests ==
    [username : Usernames, password : Passwords]
    \cup {[username |-> "ghost", password |-> "secret1"]}
EmptyUpdate == [username |-> "", email |-> "", role |-> "", is_active |-> <<>>]
UpdateRequests ==
    [username : {"", "bob"}, email : {"", "bob@x.com"}, role : {"", "admin"},
     is_active : {<<>>}]
    \cup {[EmptyUpdate EXCEPT !.is_active = <<FALSE>>]}
ChangeRequests == [current_password : Passwords, new_password : {"pw2"}]
Bodies == {"unparsable", "invalid", "ok"}

\* The directory calls of one request that fail: at most MaxDown of them.
MaxDown == 1
Failing(calls) == {d \in SUBSET calls : Cardinality(d) <= MaxDown}

\* The requests sent to a route: every body that binds and validates, with
\* every failure of the directory, and one body of each kind that does not.
Calls(reqs, calls) ==
    {[body |-> "ok", args |-> r, down |-> d] : r \in reqs, d \in Failing(calls)}
    \cup {[body |-> b, args |-> CHOOSE r \in reqs : TRUE, down |-> {}] :
            b \in Bodies \ {"ok"}}

\* The gate as a public route sees it: there is none.
NoGate ==
    [next |-> TRUE, status |-> 0, error |-> "", cause |-> "", ctx |-> NoContext,
     trace |-> <<>>]

\* resp: the call, the table before it, the answer, and what the gate did.
Outcome(op, req, status, body, gate) ==
    [op |-> op, req |-> req, pre |-> users, status |-> status, body |-> body,
     gate |-> gate, forwarded |-> gate.next]

\* No request is being served.
Idle ==
    [op |-> "idle", req |-> <<>>, pre |-> <<>>, status |-> 0,
     body |-> [success |-> TRUE, data |-> NoData, error |-> NoErr, message |-> ""],
     gate |-> NoGate, forwarded |-> FALSE]

\* The gate's own answer.
Denied(op, req, gate) ==
    Outcome(op, req, gate.status,
            [success |-> FALSE, data |-> NoData, error |-> Generic(gate.error),
             message |-> ""],
            gate)

\* A protected route: what the gate decided, then the handler's answer h if
\* it forwarded.
Through(op, gate, req, h) ==
    /\ resp' = IF gate.next
               THEN Outcome(op, req, h.status, h.body, gate)
               ELSE Denied(op, req, gate)
    /\ users' = IF gate.next THEN h.users ELSE users
    /\ UNCHANGED <<now, jwtSecret, issued, registering, updating>>

\* The gate in front of a route.
Gate(route, header) == JWTWithConfig(RequiredRoleOf(route), header)

(***************************** actions **************************************)
\* The goroutines that serve register requests side by side.
Handlers == 1..MaxCalls
\* A handler that serves no register request.
NotRegistering == [pc |-> "idle", req |-> <<>>, status |-> 0, error |-> NoErr]

\* A handler that serves no profile update.
NotUpdating ==
    [pc |-> "idle", userID |-> {}, req |-> EmptyUpdate, user |-> NoUser,
     status |-> 0, error |-> NoErr]

Init ==
    /\ now = 1
    /\ jwtSecret = "k1"
    /\ users = <<>>
    /\ issued = {}
    /\ resp = Idle
    /\ registering = [h \in Handlers |-> NotRegistering]
    /\ updating = [h \in Handlers |-> NotUpdating]

\* The answer is written and the request ends.
Respond ==
    /\ resp # Idle
    /\ resp' = Idle
    /\ UNCHANGED <<now, jwtSecret, users, issued, registering, updating>>

\* Time passes, to one of the given moments.
AdvanceClock(moments) ==
    \E t \in moments :
        /\ resp = Idle
        /\ t > now
        /\ now' = t
        /\ UNCHANGED <<jwtSecret, users, issued, resp, registering, updating>>

\* The server is restarted with another secret (NewAuthService).
Restart ==
    \E k \in Secrets \ {jwtSecret} :
        /\ resp = Idle
        /\ jwtSecret' = k
        /\ UNCHANGED <<now, users, issued, resp, registering, updating>>

\* What is remembered of a token handed out.
Grant(jwt, userID, username, role) ==
    [token |-> jwt.token, expiresAt |-> jwt.expiresAt, userID |-> userID,
     username |-> username, role |-> role, issuedAt |-> now, secret |-> jwtSecret]

\* A call of GenerateJWT.
Issue ==
    /\ resp = Idle
    /\ now <= MaxDrift
    /\ Cardinality(issued) < MaxTokens
    /\ \E userID \in UserIDs, username \in Usernames, role \in Roles, n \in 1..MaxJti :
        /\ issued' = issued \cup
              {Grant(GenerateJWT(userID, username, role, generateJTI(n)),
                     userID, username, role)}
        /\ UNCHANGED <<now, jwtSecret, users, resp, registering, updating>>

\* POST /api/v1/auth/register
PostRegister(body, req, down) ==
    /\ resp = Idle
    /\ \E salt \in 1..MaxSalt,
          pName \in Pick(RowsByUsername(users, req.username)),
          pEmail \in Pick(RowsByEmail(users, req.email)) :
            LET h == AuthHandler_Register(users, body, req, pName, pEmail, down, salt)
            IN /\ Len(h.users) <= MaxUsers
               /\ users' = h.users
               /\ resp' = Outcome("POST /register",
                                  [body |-> body, args |-> req, down |-> down],
                                  h.status, h.body, NoGate)
               /\ UNCHANGED <<now, jwtSecret, issued, registering, updating>>

\* POST /api/v1/auth/login
PostLogin(body, req, down) ==
    /\ resp = Idle
    /\ \E n \in 1..MaxJti, pName \in Pick(RowsByUsername(users, req.username)) :
            LET h == AuthHandler_Login(users, body, req, pName, down, generateJTI(n))
                user == users[pName]
            IN /\ users' = h.users
               /\ resp' = Outcome("POST /login",
                                  [body |-> body, args |-> req, down |-> down],
                                  h.status, h.body, NoGate)
               /\ issued' =
                      IF h.status = 200 /\ Cardinality(issued) < MaxTokens
                      THEN issued \cup
                           {Grant([token |-> h.body.data.token,
                                   expiresAt |-> h.body.data.expires_at],
                                  user.id, user.username, user.role)}
                      ELSE issued
               /\ UNCHANGED <<now, jwtSecret, registering, updating>>

\* GET /api/v1/auth/me
GetMe(header, down) ==
    LET gate == Gate("/me", header)
    IN /\ resp = Idle
       /\ \E pID \in Pick(RowsByID(users, gate.ctx.user_id)) :
            Through("GET /me", gate, [header |-> header, down |-> down],
                    AuthHandler_Me(users, gate.ctx, pID, down))

\* PUT /api/v1/auth/profile
PutProfile(header, body, req, down) ==
    LET gate == Gate("/profile", header)
    IN /\ resp = Idle
       /\ \E pID \in Pick(RowsByID(users, gate.ctx.user_id)),
             pName \in Pick(RowsByUsername(users, req.username)),
             pEmail \in Pick(RowsByEmail(users, req.email)) :
            Through("PUT /profile", gate,
                    [header |-> header, body |-> body, args |-> req, down |-> down],
                    AuthHandler_UpdateProfile(users, gate.ctx, body, req, pID, pName,
                                              pEmail, down))

\* POST /api/v1/auth/change-password
PostChangePassword(header, body, req, down) ==
    LET gate == Gate("/change-password", header)
    IN /\ resp = Idle
       /\ \E salt \in 1..MaxSalt, pID \in Pick(RowsByID(users, gate.ctx.user_id)) :
            Through("POST /change-password", gate,
                    [header |-> header, body |-> body, args |-> req, down |-> down],
                    AuthHandler_ChangePassword(users, gate.ctx, body, req, pID, down,
                                               salt))

\* GET /api/v1/auth/users
GetUsers(header, page, perPage, role, down) ==
    LET gate == Gate("/users", header)
    IN /\ resp = Idle
       /\ \E order \in Orderings(users, RoleFilter(users, role)) :
            Through("GET /users", gate,
                    [header |-> header, page |-> page, per_page |-> perPage,
                     role |-> role, down |-> down],
                    AuthHandler_GetUsers(users, gate.ctx, page, perPage, role, order,
                                         down))

\* GET /api/v1/auth/stats
GetUserStats(header, down) ==
    LET gate == Gate("/stats", header)
    IN /\ resp = Idle
       /\ Through("GET /stats", gate, [header |-> header, down |-> down],
                  AuthHandler_GetUserStats(users, gate.ctx, down))

\* A call of AuthService.DeleteUser, which no route reaches: with the
\* identifier the rows carry, or with one that no row carries.
CallDeleteUser(userID, down) ==
    LET r == DeleteUser(users, userID, down)
    IN /\ resp = Idle
       /\ users' = r.users
       /\ resp' = Outcome("DeleteUser", [userID |-> userID, down |-> down],
                          IF r.err = NoErr THEN 200 ELSE 500,
                          [success |-> r.err = NoErr, data |-> NoData,
                           error |-> r.err, message |-> ""],
                          NoGate)
       /\ UNCHANGED <<now, jwtSecret, issued, registering, updating>>

(***************************** register, step by step ***********************)
\* AuthService.Register is not atomic: each of its directory calls is a step
\* of its own, and the calls of requests served side by side interleave.
\* registering[h] is the call handler h is serving: pc names the directory
\* call it makes next.

\* AuthHandler.Register has bound and validated the body and calls Register.
RegisterBegin(h, req) ==
    /\ resp = Idle
    /\ registering[h].pc = "idle"
    /\ Len(users) + Cardinality({k \in Handlers : registering[k].pc # "idle"}) < MaxUsers
    /\ registering' = [registering EXCEPT ![h] = [NotRegistering EXCEPT
                            !.pc = "byUsername", !.req = req]]
    /\ UNCHANGED <<now, jwtSecret, users, issued, resp, updating>>

\* The answer of a call that ends here.
RegisterEnds(h, status, error) ==
    [registering EXCEPT ![h].pc = "done", ![h].status = status, ![h].error = error]

\* existingUser, err := s.GetUserByUsername(ctx, req.Username)
RegisterByUsername(h) ==
    LET req == registering[h].req
    IN /\ registering[h].pc = "byUsername"
       /\ \E pName \in Pick(RowsByUsername(users, req.username)) :
            LET existingUser == QueryRow(users, pName, FALSE)
            IN registering' =
                 IF existingUser.err = ""
                 THEN RegisterEnds(h, 409, Err("user with username %s already exists",
                                               req.username, ""))
                 ELSE [registering EXCEPT ![h].pc = "byEmail"]
       /\ UNCHANGED <<now, jwtSecret, users, issued, resp, updating>>

\* existingEmail, err := s.GetUserByEmail(ctx, req.Email)
RegisterByEmail(h) ==
    LET req == registering[h].req
    IN /\ registering[h].pc = "byEmail"
       /\ \E pEmail \in Pick(RowsByEmail(users, req.email)) :
            LET existingEmail == QueryRow(users, pEmail, FALSE)
            IN registering' =
                 IF existingEmail.err = ""
                 THEN RegisterEnds(h, 409, Err("user with email %s already exists",
                                               req.email, ""))
                 ELSE [registering EXCEPT ![h].pc = "insert"]
       /\ UNCHANGED <<now, jwtSecret, users, issued, resp, updating>>

\* The password is hashed, the user built and s.clickhouse.InsertUser called:
\* the table is a MergeTree, which refuses no row.
RegisterInsert(h) ==
    LET req == registering[h].req
    IN /\ registering[h].pc = "insert"
       /\ \E salt \in 1..MaxSalt :
            LET user == [id |-> {}, username |-> req.username, email |-> req.email,
                         password |-> GenerateFromPassword(req.password, salt),
                         role |-> IF req.role = "" THEN "user" ELSE req.role,
                         is_active |-> TRUE, created_at |-> now, updated_at |-> now,
                         last_login |-> <<>>]
            IN users' = ClickHouseDB_InsertUser(users, user).users
       /\ registering' = RegisterEnds(h, 201, NoErr)
       /\ UNCHANGED <<now, jwtSecret, issued, resp, updating>>

\* The answer is written and the handler is free again.
RegisterReturn(h) ==
    /\ registering[h].pc = "done"
    /\ registering' = [registering EXCEPT ![h] = NotRegistering]
    /\ UNCHANGED <<now, jwtSecret, users, issued, resp, updating>>

(***************************** profile update, step by step *****************)
\* AuthService.UpdateUser reads the row, changes its copy of it and writes
\* the copy back, each directory call a step of its own. updating[h] is the
\* call handler h is serving: pc names the directory call it makes next,
\* user is its copy of the row.

\* The gate forwarded the request; AuthHandler.UpdateProfile has taken the
\* identifier from the context, bound and validated the body and calls
\* UpdateUser.
UpdateBegin(h, header, req) ==
    LET gate == Gate("/profile", header)
    IN /\ resp = Idle
       /\ updating[h].pc = "idle"
       /\ gate.next
       /\ updating' = [updating EXCEPT ![h] = [NotUpdating EXCEPT
                            !.pc = "byID", !.userID = gate.ctx.user_id, !.req = req]]
       /\ UNCHANGED <<now, jwtSecret, users, issued, resp, registering>>

\* The answer of a call that ends here.
UpdateEnds(h, status, error) ==
    [updating EXCEPT ![h].pc = "done", ![h].status = status, ![h].error = error]

\* user, err := s.GetUserByID(ctx, userID)
UpdateByID(h) ==
    /\ updating[h].pc = "byID"
    /\ \E pID \in Pick(RowsByID(users, updating[h].userID)) :
         LET got == QueryRow(users, pID, FALSE)
         IN updating' =
              IF got.err # ""
              THEN UpdateEnds(h, 500, Err("user not found: %w", "", got.err))
              ELSE [updating EXCEPT ![h].pc = "byUsername", ![h].user = got.user]
    /\ UNCHANGED <<now, jwtSecret, users, issued, resp, registering>>

\* if req.Username != "" { existingUser, err := s.GetUserByUsername(...) ... }
UpdateByUsername(h) ==
    LET req == updating[h].req
    IN /\ updating[h].pc = "byUsername"
       /\ \E pName \in Pick(RowsByUsername(users, req.username)) :
            LET existingUser == QueryRow(users, pName, FALSE)
            IN updating' =
                 IF req.username = ""
                 THEN [updating EXCEPT ![h].pc = "byEmail"]
                 ELSE IF existingUser.err = "" /\ existingUser.user.id # updating[h].userID
                 THEN UpdateEnds(h, 500, Err("username %s is already taken",
                                             req.username, ""))
                 ELSE [updating EXCEPT ![h].pc = "byEmail",
                                       ![h].user.username = req.username]
       /\ UNCHANGED <<now, jwtSecret, users, issued, resp, registering>>

\* if req.Email != "" { existingUser, err := s.GetUserByEmail(...) ... }, then
\* the role, the active flag and UpdatedAt of the copy are set.
UpdateByEmail(h) ==
    LET req == updating[h].req
        rest == [updating EXCEPT
                    ![h].pc = "update",
                    ![h].user.email = IF req.email # "" THEN req.email ELSE @,
                    ![h].user.role = IF req.role # "" THEN req.role ELSE @,
                    ![h].user.is_active =
                        IF req.is_active # <<>> THEN req.is_active[1] ELSE @,
                    ![h].user.updated_at = now]
    IN /\ updating[h].pc = "byEmail"
       /\ \E pEmail \in Pick(RowsByEmail(users, req.email)) :
            LET existingUser == QueryRow(users, pEmail, FALSE)
            IN updating' =
                 IF req.email = ""
                 THEN rest
                 ELSE IF existingUser.err = "" /\ existingUser.user.id # updating[h].userID
                 THEN UpdateEnds(h, 500, Err("email %s is already taken", req.email, ""))
                 ELSE rest
       /\ UNCHANGED <<now, jwtSecret, users, issued, resp, registering>>

\* err = s.clickhouse.UpdateUser(ctx, user): the whole copy is written.
UpdateWrite(h) ==
    /\ updating[h].pc = "update"
    /\ users' = ClickHouseDB_UpdateUser(users, updating[h].user)
    /\ updating' = UpdateEnds(h, 200, NoErr)
    /\ UNCHANGED <<now, jwtSecret, issued, resp, registering>>

\* The answer is written and the handler is free again.
UpdateReturn(h) ==
    /\ updating[h].pc = "done"
    /\ updating' = [updating EXCEPT ![h] = NotUpdating]
    /\ UNCHANGED <<now, jwtSecret, users, issued, resp, registering>>

(***************************** what a client may send ***********************)
\* A token with a byte of its signature segment changed.
Tamper(tok) == [tok EXCEPT !.sig.flipped = TRUE]

\* Payloads with a claim missing or of another JSON type.
ClaimVariants(c) ==
    {[c EXCEPT !.user_id = Absent], [c EXCEPT !.user_id = Str("7")],
     [c EXCEPT !.username = Absent], [c EXCEPT !.role = Absent],
     [c EXCEPT !.exp = Absent], [c EXCEPT !.exp = Str("soon")],
     [c EXCEPT !.iat = Absent]}

\* Token strings built from an issued one: itself, with its signature
\* changed, under another algorithm or key, with its claims changed.
Presentable(tok) ==
    {tok, Tamper(tok), GarbageToken}
    \cup {Compact(alg, tok.claims, key) : alg \in HMACAlgs, key \in Secrets}
    \cup {Compact(alg, tok.claims, tok.sig.key) : alg \in {"RS256", "none", "XS1"}}
    \cup {Compact("HS256", c, tok.sig.key) : c \in ClaimVariants(tok.claims)}

IssuedTokens == {g.token : g \in issued}

\* Authorization headers of a client that holds the issued tokens.
SessionHeaders == {Header("Bearer ", tok) : tok \in IssuedTokens}

\* Authorization headers of any client.
AnyHeaders ==
    {NoHeader, Header("Bearer ", EmptyToken)}
    \cup {Header("Bearer ", t) : t \in UNION {Presentable(tok) : tok \in IssuedTokens}}
    \cup {Header(scheme, tok) : scheme \in {"", "Basic ", "bearer "}, tok \in IssuedTokens}

Pages == {0, 2}
PerPages == {0, 1, 101}

(***************************** specifications *******************************)
\* The service behind its routes, used by clients that hold the tokens that
\* login gave them.
Next ==
    \/ Respond
    \/ \E c \in Calls(RegisterRequests, {"byUsername", "byEmail", "insert"}) :
          PostRegister(c.body, c.args, c.down)
    \/ \E c \in Calls(LoginRequests, {"byUsername", "lastLogin"}) :
          PostLogin(c.body, c.args, c.down)
    \/ \E header \in SessionHeaders, down \in Failing({"byID"}) : GetMe(header, down)
    \/ \E header \in SessionHeaders,
          c \in Calls(UpdateRequests, {"byID", "byUsername", "byEmail", "update"}) :
          PutProfile(header, c.body, c.args, c.down)
    \/ \E header \in SessionHeaders, c \in Calls(ChangeRequests, {"byID", "update"}) :
          PostChangePassword(header, c.body, c.args, c.down)
    \/ \E header \in SessionHeaders, page \in Pages, perPage \in PerPages,
          role \in {"", "admin"}, down \in Failing({"list"}) :
          GetUsers(header, page, perPage, role, down)
    \/ \E header \in SessionHeaders, down \in Failing({"stats"}) :
          GetUserStats(header, down)
    \/ \E userID \in {{}, {0}}, down \in Failing({"delete"}) :
          CallDeleteUser(userID, down)

Spec == Init /\ [][Next]_vars

\* The token codec and the gate, against any header a client may build from
\* tokens the codec issued, across restarts with another secret; the
\* directory is empty and answers every call.
NextGate ==
    \/ Respond
    \/ AdvanceClock(Instants)
    \/ Restart
    \/ Issue
    \/ \E header \in AnyHeaders : GetMe(header, {})
    \/ \E header \in AnyHeaders : PutProfile(header, "ok", EmptyUpdate, {})
    \/ \E header \in AnyHeaders :
          PostChangePassword(header, "ok",
                             [current_password |-> "secret1", new_password |-> "pw2"], {})
    \/ \E header \in AnyHeaders : GetUsers(header, 0, 0, "", {})
    \/ \E header \in AnyHeaders : GetUserStats(header, {})

SpecGate == Init /\ [][NextGate]_vars

\* One account and the session its login opens, while the clock runs up to
\* and past the token's expiry and the account is changed and deleted.
Alice ==
    [username |-> "alice", email |-> "alice@x.com", password |-> "secret1", role |-> ""]
NextSession ==
    \/ Respond
    \/ AdvanceClock(Instants)
    \/ PostRegister("ok", Alice, {})
    \/ PostLogin("ok", [username |-> "alice", password |-> "secret1"], {})
    \/ \E header \in SessionHeaders : GetMe(header, {})
    \/ \E header \in SessionHeaders,
          req \in {[EmptyUpdate EXCEPT !.role = "admin"],
                   [EmptyUpdate EXCEPT !.is_active = <<FALSE>>],
                   [EmptyUpdate EXCEPT !.username = "bob"]} :
          PutProfile(header, "ok", req, {})
    \/ \E header \in SessionHeaders :
          PostChangePassword(header, "ok",
                             [current_password |-> "secret1", new_password |-> "pw2"], {})
    \/ CallDeleteUser({}, {})

SpecSession == Init /\ [][NextSession]_vars

\* Register requests served side by side on a directory that answers every
\* call, starting from the empty table.
RaceRequests ==
    [username : Usernames, email : Emails, password : {"secret1"}, role : {""}]
NextRace ==
    \/ \E h \in Handlers, req \in RaceRequests : RegisterBegin(h, req)
    \/ \E h \in Handlers : RegisterByUsername(h)
    \/ \E h \in Handlers : RegisterByEmail(h)
    \/ \E h \in Handlers : RegisterInsert(h)
    \/ \E h \in Handlers : RegisterReturn(h)

SpecRace == Init /\ [][NextRace]_vars

\* The accounts of one client, the session its login opens, and profile
\* updates sent with that session's token and served side by side on a
\* directory that answers every call; each update changes one field.
RaceUpdates ==
    {[EmptyUpdate EXCEPT !.username = "bob"], [EmptyUpdate EXCEPT !.email = "bob@x.com"],
     [EmptyUpdate EXCEPT !.role = "admin"], [EmptyUpdate EXCEPT !.is_active = <<FALSE>>]}
\* The client registers and logs in while none of its updates is in flight.
Quiet == \A h \in Handlers : updating[h].pc = "idle"
NextUpdateRace ==
    \/ Respond
    \/ Quiet /\ PostRegister("ok", Alice, {})
    \/ Quiet /\ PostLogin("ok", [username |-> "alice", password |-> "secret1"], {})
    \/ \E h \in Handlers, header \in SessionHeaders, req \in RaceUpdates :
          UpdateBegin(h, header, req)
    \/ \E h \in Handlers : UpdateByID(h)
    \/ \E h \in Handlers : UpdateByUsername(h)
    \/ \E h \in Handlers : UpdateByEmail(h)
    \/ \E h \in Handlers : UpdateWrite(h)
    \/ \E h \in Handlers : UpdateReturn(h)

SpecUpdateRace == Init /\ [][NextUpdateRace]_vars

(***************************** properties ***********************************)
ProtectedOps ==
    {"GET /me", "PUT /profile", "POST /change-password", "GET /users", "GET /stats"}
AdminOps == {"GET /users", "GET /stats"}

\* The moment a grant's token stops verifying: the whole second of its
\* issue plus the configured hours.
ExpiryOf(g) == AtSecond(Unix(g.issuedAt) + jwtExpire * SecondsPerHour)

\* C1: a request to GET /users or GET /stats reaches the handler only if its
\* token verifies and carries the role admin; a request whose token verifies
\* with any other role is answered 403 and does not reach the handler.
C1_RoleGate ==
    resp.op \in AdminOps =>
        LET header == resp.req.header
            v == ValidateJWT(header.rest)
        IN /\ resp.forwarded =>
                (header.scheme = "Bearer " /\ v.err = "" /\ v.payload.Role = "admin")
           /\ (header.scheme = "Bearer " /\ v.err = "" /\ v.payload.Role # "admin") =>
                (resp.status = 403 /\ ~resp.forwarded /\ users = resp.pre)

\* A verified token of role user was presented to GET /users and refused.
C1_Refused ==
    /\ resp.op = "GET /users"
    /\ resp.req.header.scheme = "Bearer "
    /\ ValidateJWT(resp.req.header.rest).err = ""
    /\ ValidateJWT(resp.req.header.rest).payload.Role = "user"
    /\ resp.status = 403
    /\ ~resp.forwarded

\* C2: a request to a protected route with no Authorization header, with a
\* header of another scheme than Bearer, or with an empty token is answered
\* 401 and does not reach the handler.
C2_NoCredentials ==
    (/\ resp.op \in ProtectedOps
     /\ \/ resp.req.header = NoHeader
        \/ resp.req.header.scheme # "Bearer "
        \/ resp.req.header.rest = EmptyToken)
    => (resp.status = 401 /\ ~resp.forwarded /\ users = resp.pre)

\* A token that verifies was sent under the scheme Basic and answered 401.
C2_WrongScheme ==
    /\ resp.op \in ProtectedOps
    /\ resp.req.header.scheme = "Basic "
    /\ ValidateJWT(resp.req.header.rest).err = ""
    /\ resp.status = 401
    /\ ~resp.forwarded

\* C3: whatever the reason a token fails verification for, the gate's answer
\* is the same: the answer given to a failing token is 401 "Invalid token",
\* and every other failing token would be given that very answer.
C3_SameAnswer ==
    (resp.op \in ProtectedOps /\ resp.gate.cause # "") =>
        /\ resp.status = 401
        /\ resp.body.error = Generic("Invalid token")
        /\ \A other \in AnyHeaders :
              LET gate == JWTWithConfig(IF resp.op \in AdminOps THEN "admin" ELSE "",
                                        other)
              IN gate.cause # "" =>
                    /\ gate.status = resp.status
                    /\ Denied(resp.op, resp.req, gate).body = resp.body

\* An expired token was refused while a token with a wrong signature, a
\* malformed one and one with a missing claim could be presented too.
C3_TwoReasons ==
    /\ resp.op \in ProtectedOps
    /\ resp.gate.cause = "expired"
    /\ \A cause \in {"signature", "malformed", "claims", "unverifiable"} :
          \E other \in AnyHeaders : JWTWithConfig("", other).cause = cause

\* C4: verifying a token at the moment it was issued, under the secret it
\* was issued with, succeeds and gives back the identifier, the username and
\* the role it was issued for.
C4_RoundTrip ==
    \A g \in issued :
        (g.issuedAt = now /\ g.secret = jwtSecret) =>
            LET v == ValidateJWT(g.token)
            IN /\ v.err = ""
               /\ v.payload.UserID = g.userID
               /\ v.payload.Username = g.username
               /\ v.payload.Role = g.role

\* C5 as stated: a token verifies at every time before its issue time plus
\* the configured hours, and fails as expired at every time after it.
C5_ExactExpiry ==
    \A g \in issued :
        g.secret = jwtSecret =>
            /\ now < g.issuedAt + ExpireTicks => ValidateJWT(g.token).err = ""
            /\ now > g.issuedAt + ExpireTicks => ValidateJWT(g.token).err = "expired"

\* The expiry a token carries is the whole second of its issue plus the
\* configured hours; it verifies before that second and is expired from it on.
C5_WholeSeconds ==
    \A g \in issued :
        g.secret = jwtSecret =>
            /\ g.token.claims.exp =
                  Num(FromInt(Unix(g.issuedAt) + jwtExpire * SecondsPerHour))
            /\ now < ExpiryOf(g) => ValidateJWT(g.token).err = ""
            /\ now >= ExpiryOf(g) => ValidateJWT(g.token).err = "expired"

\* A token that jwt.Parse finds expired, jwt.Parse refuses in the next state too.
C5_StaysExpired ==
    \A g \in issued :
        JwtParse(g.token, jwtSecret, now) = "expired" =>
            JwtParse(g.token, jwtSecret', now') # ""

\* C5, amended: a token issued at t0 carries as expiry the whole second of
\* t0 plus the configured hours; it verifies at every time before that
\* expiry, fails as expired at that time and at every later one, and once
\* expired never verifies again.
C5_Expiry == []C5_WholeSeconds /\ [][C5_StaysExpired]_vars

\* A token issued half a second into a second was refused as expired half a
\* second before its issue time plus the configured hours.
C5_ExpiredEarly ==
    \E g \in issued :
        /\ g.secret = jwtSecret
        /\ now = ExpiryOf(g)
        /\ now < g.issuedAt + ExpireTicks
        /\ resp.op \in ProtectedOps
        /\ resp.req.header = Header("Bearer ", g.token)
        /\ resp.gate.cause = "expired"

C7_OnlyHS256 ==
    (/\ resp.op \in ProtectedOps
     /\ resp.req.header.scheme = "Bearer "
     /\ resp.req.header.rest.alg # "HS256")
    => (resp.status = 401 /\ ~resp.forwarded)

\* C8: whatever was done to the account since (password change, profile
\* update, deletion), a token that login issued verifies under the secret it
\* was issued with, with the identifier, username and role it was issued for,
\* at every time before its expiry.
C8_DirectoryFree ==
    \A g \in issued :
        (g.secret = jwtSecret /\ now < ExpiryOf(g)) =>
            LET v == ValidateJWT(g.token)
            IN /\ v.err = ""
               /\ v.payload.UserID = g.userID
               /\ v.payload.Username = g.username
               /\ v.payload.Role = g.role

\* The account was deleted and its token still took a request through the gate.
C8_AfterDelete ==
    /\ issued # {}
    /\ users = <<>>
    /\ resp.op = "GET /me"
    /\ resp.forwarded
    /\ resp.gate.ctx.username = "alice"

\* C9: register with a username a row already has is answered with the
\* duplicate-username error, register with an email a row already has with
\* the duplicate-email error, and the table is left as it was.
C9_DuplicateRejected ==
    (resp.op = "POST /register" /\ resp.req.body = "ok") =>
        LET args == resp.req.args
            byName == RowsByUsername(resp.pre, args.username) # {}
            byEmail == RowsByEmail(resp.pre, args.email) # {}
        IN /\ byName =>
                /\ resp.body.error.msg = "user with username %s already exists"
                /\ users = resp.pre
           /\ (~byName /\ byEmail) =>
                /\ resp.body.error.msg = "user with email %s already exists"
                /\ users = resp.pre

\* C10: no two rows of the table share a username, and no two share an email.
C10_Unique ==
    \A i, j \in 1..Len(users) :
        i # j => (users[i].username # users[j].username
                  /\ users[i].email # users[j].email)

\* C11: of register calls served side by side with the same username (the
\* same email) at most one is answered 201, and the table never holds two
\* rows with that username (email).
C11_OneWinner ==
    /\ \A h, k \in Handlers :
          (h # k /\ registering[h].status = 201 /\ registering[k].status = 201) =>
              /\ registering[h].req.username # registering[k].req.username
              /\ registering[h].req.email # registering[k].req.email
    /\ \A i, j \in 1..Len(users) :
          i # j => (users[i].username # users[j].username
                    /\ users[i].email # users[j].email)

\* C12: a register answered 201 has appended exactly one row to the table,
\* with the username and email of the request, the requested role or user
\* when none was requested, is_active true and a password hash that is not
\* empty and verifies against the submitted password; the user it returns
\* has its password cleared, and the answer carries no password.
C12_RegisterPersists ==
    (resp.op = "POST /register" /\ resp.status = 201) =>
        LET args == resp.req.args
            row == users[Len(users)]
        IN /\ Len(users) = Len(resp.pre) + 1
           /\ SubSeq(users, 1, Len(resp.pre)) = resp.pre
           /\ row.username = args.username
           /\ row.email = args.email
           /\ row.role = (IF args.role = "" THEN "user" ELSE args.role)
           /\ row.is_active
           /\ row.password # NoPassword
           /\ CompareHashAndPassword(row.password, args.password)
           /\ resp.body.data.username = args.username
           /\ resp.body.data.email = args.email
           /\ "password" \notin DOMAIN resp.body.data
           /\ \A salt \in 1..MaxSalt,
                 pName \in Pick(RowsByUsername(resp.pre, args.username)),
                 pEmail \in Pick(RowsByEmail(resp.pre, args.email)) :
                 LET r == Register(resp.pre, args, pName, pEmail, resp.req.down, salt)
                 IN r.err = NoErr => (r.user.password = NoPassword
                                      /\ r.user.username = args.username)

\* A second account was registered with no role requested and got the role user.
C12_SecondAccount ==
    /\ resp.op = "POST /register"
    /\ resp.status = 201
    /\ resp.req.args.role = ""
    /\ Len(resp.pre) = 1
    /\ Len(users) = 2
    /\ users[2].role = "user"
    /\ users[2].is_active

\* C13: a login with a username no row has, and a login with a username a
\* row has and a password that does not match it, are given the same answer:
\* the answer to the latter is the answer a login of the unknown username
\* ghost with that password gets.
C13_SameError ==
    (resp.op = "POST /login" /\ resp.req.body = "ok") =>
        LET args == resp.req.args
            rows == RowsByUsername(resp.pre, args.username)
            ghost == AuthHandler_Login(resp.pre, "ok",
                                       [username |-> "ghost", password |-> args.password],
                                       0, {}, generateJTI(1))
        IN (\A i \in rows : ~CompareHashAndPassword(resp.pre[i].password, args.password))
              => (resp.status = ghost.status /\ resp.body = ghost.body)

\* C14: a login is answered "account is disabled" only if a row has the
\* username, the submitted password matches its hash and it is inactive; a
\* login whose password matches no row of that username is answered
\* "invalid credentials", active or not; and a login on an inactive row is
\* never answered with a token.
C14_DisabledOnlyOnMatch ==
    (resp.op = "POST /login" /\ resp.req.body = "ok") =>
        LET args == resp.req.args
            rows == RowsByUsername(resp.pre, args.username)
            Matches(i) == CompareHashAndPassword(resp.pre[i].password, args.password)
        IN /\ resp.body.error.msg = "account is disabled" =>
                \E i \in rows : Matches(i) /\ ~resp.pre[i].is_active
           /\ (\A i \in rows : ~Matches(i)) =>
                resp.body.error.msg = "invalid credentials"
           /\ (rows # {} /\ \A i \in rows : ~resp.pre[i].is_active) =>
                (resp.status # 200 /\ resp.body.data = NoData)

\* C15: no two rows of the table carry the same identifier.
C15_DistinctIDs ==
    \A i, j \in 1..Len(users) : i # j => users[i].id # users[j].id

\* The rows of the table before the call that are the caller's: those with
\* the identifier and the username of the token.
CallerRows ==
    {i \in RowsByID(resp.pre, resp.gate.ctx.user_id) :
        resp.pre[i].username = resp.gate.ctx.username}

\* C16: a profile update with every field empty, by a user the table holds
\* and with the directory answering, is answered 200, leaves the username,
\* email, role and active flag of the user's row as they were and sets its
\* updated_at to the current time.
C16_EmptyUpdate ==
    (/\ resp.op = "PUT /profile"
     /\ resp.forwarded
     /\ resp.req.body = "ok"
     /\ resp.req.args = EmptyUpdate
     /\ resp.req.down = {}
     /\ CallerRows # {})
    => /\ resp.status = 200
       /\ Len(users) = Len(resp.pre)
       /\ \A i \in CallerRows :
             /\ users[i].username = resp.pre[i].username
             /\ users[i].email = resp.pre[i].email
             /\ users[i].role = resp.pre[i].role
             /\ users[i].is_active = resp.pre[i].is_active
             /\ users[i].updated_at = DateTime(now)

\* C17: a profile update that sets a username another user's row holds is
\* refused with the username-taken error, one that sets an email another
\* user's row holds with the email-taken error, and both leave the table as
\* it was; an update that sets no value another user holds (the user's own
\* values included) is answered 200.
C17_ConflictRefused ==
    (/\ resp.op = "PUT /profile"
     /\ resp.forwarded
     /\ resp.req.body = "ok"
     /\ resp.req.down = {}
     /\ CallerRows # {})
    => LET args == resp.req.args
           others == (1..Len(resp.pre)) \ CallerRows
           nameTaken == /\ args.username # ""
                        /\ \E j \in others : resp.pre[j].username = args.username
           emailTaken == /\ args.email # ""
                         /\ \E j \in others : resp.pre[j].email = args.email
       IN /\ nameTaken =>
               /\ resp.body.error.msg = "username %s is already taken"
               /\ users = resp.pre
          /\ (~nameTaken /\ emailTaken) =>
               /\ resp.body.error.msg = "email %s is already taken"
               /\ users = resp.pre
          /\ (~nameTaken /\ ~emailTaken) => resp.status = 200

\* C18: a password change whose current_password does not verify against
\* the hash of the user's row is refused with "current password is
\* incorrect" and leaves that hash as it was; after a password change that
\* was answered 200, a login of that user (active, and the only one of that
\* username) succeeds with the new password and fails with the old one.
C18_PasswordChange ==
    (/\ resp.op = "POST /change-password"
     /\ resp.forwarded
     /\ resp.req.body = "ok"
     /\ resp.req.down = {}
     /\ CallerRows # {})
    => LET args == resp.req.args
           Verifies(i) ==
               CompareHashAndPassword(resp.pre[i].password, args.current_password)
           LoginWith(i, password) ==
               {AuthHandler_Login(users, "ok",
                                  [username |-> users[i].username, password |-> password],
                                  pName, {}, generateJTI(1)).status :
                    pName \in Pick(RowsByUsername(users, users[i].username))}
       IN /\ (\A i \in CallerRows : ~Verifies(i)) =>
               /\ resp.body.error.msg = "current password is incorrect"
               /\ \A i \in CallerRows : users[i].password = resp.pre[i].password
          /\ resp.status = 200 =>
               \A i \in CallerRows :
                   (/\ users[i].is_active
                    /\ RowsByUsername(users, users[i].username) = {i}
                    /\ args.new_password # args.current_password) =>
                       /\ LoginWith(i, args.new_password) = {200}
                       /\ LoginWith(i, args.current_password) = {401}

\* C19 as stated: a password change answered 200 leaves every field of the
\* rows but the password hash as it was, and a login answered 200 every
\* field but last_login.
C19_OneFieldOnly ==
    /\ (resp.op = "POST /change-password" /\ resp.status = 200) =>
          /\ Len(users) = Len(resp.pre)
          /\ \A i \in 1..Len(users) :
                users[i] = [resp.pre[i] EXCEPT !.password = users[i].password]
    /\ (resp.op = "POST /login" /\ resp.status = 200) =>
          /\ Len(users) = Len(resp.pre)
          /\ \A i \in 1..Len(users) :
                users[i] = [resp.pre[i] EXCEPT !.last_login = users[i].last_login]

\* C19, amended: a password change answered 200 changes the password hash
\* and updated_at of the target row and nothing else, a login answered 200
\* its last_login and updated_at and nothing else; updated_at is set to the
\* time of the call, and username, email, role, active flag and created_at
\* are left as they were.
C19_FrameWithUpdatedAt ==
    /\ (resp.op = "POST /change-password" /\ resp.status = 200) =>
          /\ Len(users) = Len(resp.pre)
          /\ \A i \in 1..Len(users) :
                users[i] = [resp.pre[i] EXCEPT !.password = users[i].password,
                                               !.updated_at = users[i].updated_at]
          /\ \A i \in RowsByID(resp.pre, resp.gate.ctx.user_id) :
                /\ CompareHashAndPassword(users[i].password, resp.req.args.new_password)
                /\ users[i].updated_at = DateTime(now)
    /\ (resp.op = "POST /login" /\ resp.status = 200) =>
          /\ Len(users) = Len(resp.pre)
          /\ \A i \in 1..Len(users) :
                users[i] = [resp.pre[i] EXCEPT !.last_login = users[i].last_login,
                                               !.updated_at = users[i].updated_at]
          /\ "lastLogin" \notin resp.req.down =>
                \A i \in RowsByUsername(resp.pre, resp.req.args.username) :
                    /\ users[i].last_login = <<DateTime(now)>>
                    /\ users[i].updated_at = DateTime(now)

\* A login a second after the registration was answered 200 and moved the
\* row's updated_at along with its last_login.
C19_LoginTouchesUpdatedAt ==
    /\ resp.op = "POST /login"
    /\ resp.status = 200
    /\ Len(users) = 1
    /\ users[1].last_login # resp.pre[1].last_login
    /\ users[1].updated_at > resp.pre[1].updated_at
    /\ users[1].created_at = resp.pre[1].created_at

\* C20 as stated: the listing is queried with page 1 for a page below 1 and
\* with per_page clamped into [1, 100]: 1 for a value below 1, 100 for a
\* value above 100.
C20_Clamped ==
    (resp.op = "GET /users" /\ resp.status = 200) =>
        /\ resp.body.data.page = (IF resp.req.page < 1 THEN 1 ELSE resp.req.page)
        /\ resp.body.data.per_page =
              (IF resp.req.per_page < 1 THEN 1
               ELSE IF resp.req.per_page > 100 THEN 100 ELSE resp.req.per_page)

\* C20, amended: the listing is queried with page 1 for a page below 1, and
\* with per_page 10 for a per_page below 1 or above 100; a per_page within
\* [1, 100] is used as given, so the per_page used is always within [1, 100],
\* and no more rows than that are returned.
C20_DefaultPerPage ==
    (resp.op = "GET /users" /\ resp.status = 200) =>
        /\ resp.body.data.page = (IF resp.req.page < 1 THEN 1 ELSE resp.req.page)
        /\ resp.body.data.per_page =
              (IF resp.req.per_page \in 1..100 THEN resp.req.per_page ELSE 10)
        /\ resp.body.data.per_page \in 1..100
        /\ Len(resp.body.data.users) <= resp.body.data.per_page

\* A listing asked with page 0 and per_page 101 was answered with page 1 and
\* per_page 10.
C20_AboveHundred ==
    /\ resp.op = "GET /users"
    /\ resp.status = 200
    /\ resp.req.page = 0
    /\ resp.req.per_page = 101
    /\ resp.body.data.page = 1
    /\ resp.body.data.per_page = 10

\* The user lists of the pages 1..n of one listing, one after the other, when
\* every page's query returns the rows in the same order.
RECURSIVE PagesUpTo(_, _, _, _, _)
PagesUpTo(tbl, perPage, role, order, n) ==
    IF n = 0 THEN <<>>
    ELSE PagesUpTo(tbl, perPage, role, order, n - 1)
         \o ClickHouseDB_GetUsers(tbl, n, perPage, role, order).users

\* C21: a listing answered 200 reports as total_pages the ceiling of total
\* over per_page; the user lists of its pages 1..total_pages, one after the
\* other, hold total users with total distinct identifiers, newest first.
C21_Pagination ==
    (resp.op = "GET /users" /\ resp.status = 200) =>
        LET data == resp.body.data
            idx == RoleFilter(users, resp.req.role)
            total == Cardinality(idx)
        IN /\ data.total = total
           /\ data.total_pages * data.per_page >= total
           /\ (data.total_pages - 1) * data.per_page < total
           /\ \A order \in Orderings(users, idx) :
                 LET all == PagesUpTo(users, data.per_page, resp.req.role, order,
                                      data.total_pages)
                 IN /\ Len(all) = total
                    /\ Cardinality({all[i].id : i \in 1..Len(all)}) = total
                    /\ \A i, j \in 1..Len(all) :
                          i < j => all[i].created_at >= all[j].created_at

\* C22: a DeleteUser that the directory serves removes the rows with the
\* given identifier and no other, so that no lookup finds them afterwards;
\* when no row has that identifier it fails and leaves the table as it was.
C22_Delete ==
    (resp.op = "DeleteUser" /\ resp.req.down = {}) =>
        LET had == RowsByID(resp.pre, resp.req.userID)
        IN /\ had # {} =>
                /\ resp.status = 200
                /\ RowsByID(users, resp.req.userID) = {}
                /\ Len(users) = Len(resp.pre) - Cardinality(had)
           /\ had = {} =>
                /\ resp.body.error # NoErr
                /\ users = resp.pre

\* The directory call a handler's service operation makes first.
FirstCall(op) ==
    IF op \in {"POST /register", "POST /login"} THEN "byUsername" ELSE "byID"

\* C23: when the first directory call of a register, login, profile update
\* or password change fails, the answer is a 500; and no answer of these
\* routes carries the text of a storage error.
C23_GenericFailure ==
    (/\ resp.op \in {"POST /register", "POST /login", "PUT /profile",
                     "POST /change-password"}
     /\ resp.forwarded
     /\ resp.req.body = "ok")
    => /\ FirstCall(resp.op) \in resp.req.down =>
             (resp.status = 500 /\ resp.body.error # NoErr)
       /\ resp.body.error.storage = ""

\* The user objects the answer of the last call carries.
CarriedUsers ==
    IF resp.status \notin {200, 201} \/ ~resp.forwarded THEN {}
    ELSE IF resp.op \in {"POST /register", "GET /me", "PUT /profile"}
    THEN {resp.body.data}
    ELSE IF resp.op = "POST /login" THEN {resp.body.data.user}
    ELSE IF resp.op = "GET /users"
    THEN {resp.body.data.users[i] : i \in DOMAIN resp.body.data.users}
    ELSE {}

\* C24: no user object in an answer of register, login, me, profile update
\* or user list has a password field, and the token login answers with has
\* no password claim.
C24_NoHash ==
    /\ \A u \in CarriedUsers : "password" \notin DOMAIN u
    /\ (resp.op = "POST /login" /\ resp.status = 200) =>
          /\ DOMAIN resp.body.data = {"token", "expires_at", "user"}
          /\ "password" \notin DOMAIN resp.body.data.token.claims

\* GET /me was answered with the user of a row whose password hash is set.
C24_MeAnswered ==
    /\ resp.op = "GET /me"
    /\ resp.status = 200
    /\ CarriedUsers # {}
    /\ \E i \in 1..Len(users) :
          /\ users[i].username = resp.body.data.username
          /\ users[i].password # NoPassword

\* The stages a request that is forwarded has passed, in the gate's order.
StagesOf(op) ==
    IF op \in AdminOps THEN <<"extracted", "verified", "role", "bound", "next">>
    ELSE <<"extracted", "verified", "bound", "next">>

\* C25 as stated: when the gate checks the role, it has bound the identity
\* into the request context before.
C25_BoundBeforeRole ==
    resp.op \in ProtectedOps =>
        LET trace == resp.gate.trace
        IN \A j \in 1..Len(trace) :
              trace[j] = "role" => \E i \in 1..(j - 1) : trace[i] = "bound"

\* C25, amended: a request passes the stages token extracted, token
\* verified, role checked (on the routes that require a role), identity
\* bound, forwarded, in this order, and stops at the first that fails: the
\* role is checked on the verified payload before the identity is bound, so
\* a request refused with 403 has no identity bound; every request ends in
\* exactly one of forwarded, 401 and 403.
C25_StageOrder ==
    resp.op \in ProtectedOps =>
        LET gate == resp.gate
            trace == gate.trace
            full == StagesOf(resp.op)
        IN /\ Len(trace) <= Len(full)
           /\ trace = SubSeq(full, 1, Len(trace))
           /\ resp.forwarded <=> trace = full
           /\ resp.forwarded <=> gate.status = 0
           /\ ~resp.forwarded => (gate.status \in {401, 403} /\ resp.status = gate.status)
           /\ gate.ctx.set <=> resp.forwarded
           /\ gate.status = 403 =>
                 (trace = <<"extracted", "verified", "role">> /\ ~gate.ctx.set)
           /\ gate.status = 401 => Len(trace) <= 1
           /\ (gate.status = 401 /\ trace = <<"extracted">>) => gate.cause # ""
           /\ ~resp.forwarded => users = resp.pre

\* A request with a verified token of role user was refused with 403 at the
\* role check, with no identity bound.
C25_RefusedUnbound ==
    /\ resp.op \in AdminOps
    /\ resp.gate.status = 403
    /\ resp.gate.trace = <<"extracted", "verified", "role">>
    /\ ~resp.gate.ctx.set
    /\ ~resp.forwarded

\* C26: a register whose username lookup fails with a storage error, or
\* whose email lookup does after the username was found free, is answered
\* with an error and inserts no row.
C26_PreCheckFailure ==
    (/\ resp.op = "POST /register"
     /\ resp.req.body = "ok"
     /\ \/ "byUsername" \in resp.req.down
        \/ /\ "byEmail" \in resp.req.down
           /\ RowsByUsername(resp.pre, resp.req.args.username) = {})
    => /\ resp.body.error # NoErr
       /\ resp.status # 201
       /\ users = resp.pre

\* C27: the identifier a register answered 201 returns is the identifier of
\* the row it inserted: a lookup by that identifier finds a row with the
\* username and email of the request.
C27_ReturnedID ==
    (resp.op = "POST /register" /\ resp.status = 201) =>
        \E i \in RowsByID(users, resp.body.data.id) :
            /\ users[i].username = resp.req.args.username
            /\ users[i].email = resp.req.args.email

\* The rows of the table before the call that the call is made for: the
\* caller's for a profile update and a password change, those of the
\* username for a login.
TargetRows ==
    IF resp.op = "POST /login"
    THEN RowsByUsername(resp.pre, resp.req.args.username)
    ELSE CallerRows

\* C28: a profile update, password change or login answered 200, with the
\* directory answering every call, leaves the username, email, role, active
\* flag, password hash and last login of every row but the target's as they
\* were.
C28_OthersUntouched ==
    (/\ resp.op \in {"PUT /profile", "POST /change-password", "POST /login"}
     /\ resp.forwarded
     /\ resp.status = 200
     /\ resp.req.down = {})
    => /\ Len(users) = Len(resp.pre)
       /\ \A i \in (1..Len(resp.pre)) \ TargetRows :
             /\ users[i].username = resp.pre[i].username
             /\ users[i].email = resp.pre[i].email
             /\ users[i].role = resp.pre[i].role
             /\ users[i].is_active = resp.pre[i].is_active
             /\ users[i].password = resp.pre[i].password
             /\ users[i].last_login = resp.pre[i].last_login

\* C29: starting with no account and no token, the calls open to everyone
\* never yield a token whose role is admin, and no admin-only handler is
\* ever invoked.
C29_NoEscalation ==
    /\ \A g \in issued : g.role # "admin"
    /\ resp.op \in AdminOps => ~resp.forwarded

\* C30: when two profile updates of the same user that change different
\* fields have both been answered 200, the user's record carries the change
\* of each.
C30_BothTakeEffect ==
    \A h1 \in Handlers : \A h2 \in Handlers \ {h1} :
        LET a == updating[h1]
            b == updating[h2]
            Changed(req) ==
                {f \in {"username", "email", "role"} : req[f] # ""}
                \cup (IF req.is_active # <<>> THEN {"is_active"} ELSE {})
            Reflects(req, row) ==
                /\ \A f \in {"username", "email", "role"} : req[f] # "" => row[f] = req[f]
                /\ req.is_active # <<>> => row.is_active = req.is_active[1]
        IN (/\ a.pc = "done" /\ a.status = 200
            /\ b.pc = "done" /\ b.status = 200
            /\ a.userID = b.userID
            /\ Changed(a.req) \cap Changed(b.req) = {})
           => \A i \in RowsByID(users, a.userID) :
                 Reflects(a.req, users[i]) /\ Reflects(b.req, users[i])

====
